---- MODULE Spec2Model ----
(***************************************************************************)
(* Model of the feedback widget's screenshot annotation editor             *)
(* (ScreenshotEditor) together with the part of FeedbackModal that opens   *)
(* it and receives its result.                                             *)
(*                                                                         *)
(* The canvas is modelled as a display list: its pixel size and the        *)
(* sequence of things composited onto it (the decoded image's content, one *)
(* layer per figure drawn, and a patch for a snapshot written back onto a  *)
(* canvas of another size).  A figure records its kind and its two points; *)
(* it is stroked in the colour that is active at that pointer-move, which  *)
(* the display list does not record.  A Blob's content is the canvas it    *)
(* was encoded from (PNG is lossless).  Each event handler is one action;  *)
(* the state updates a handler queues are committed before the next event. *)
(***************************************************************************)
EXTENDS Integers, Sequences, FiniteSets, TLC

\* ---------------------------------------------------------------- bounds
NumPoints == 2      \* distinct pointer positions offered to the handlers
MaxFigures == 1     \* figures drawn onto one canvas
MaxPath == 2        \* points recorded in one pen path
MaxPending == 1     \* toBlob encodings in flight
MaxEdits == 1       \* times the editor is opened
MaxEncodeEvents == 1 \* editor events handled while a toBlob encoding is in flight
GridMax == 2        \* largest coordinate of the corner points of a rectangle drag
MaxSubmits == 2     \* submissions of one feedback form
NumMarked == 2      \* elements of the page marked data-feedback-button
MaxCaptures == 2    \* captureScreenshot calls in flight at once
MaxRendered == 2    \* renderButton calls on one reporter
MaxModals == 2      \* modals of the vanilla reporter open at once
MaxUploads == 1     \* files chosen in the modal's file input
MaxSaves == 2       \* Save clicks in the editor of one modal

\* ------------------------------------------------------- program constants
\* null / undefined (no record and no point equals it)
NULL == <<>>

\* canvas.getContext('2d')
Context2D == [contextType |-> "2d"]

\* URL.createObjectURL(blob)
createObjectURL(blob) == [url |-> blob]

DrawingTool == {"arrow", "rectangle", "circle", "pen", "text"}
DrawingColor == {"red", "blue", "green", "yellow", "black"}
toolButtons == {"arrow", "rectangle", "circle", "pen"}
colorButtons == {"red", "blue", "green", "yellow", "black"}

Points == {<<i, i>> : i \in 1..NumPoints}

\* ------------------------------------------------------------ canvas model
\* A freshly created <canvas>: 300x150, transparent.
BlankCanvas == [size |-> "default", layers |-> <<>>]

\* The screenshot the modal was opened with (captured page, native size).
InitialScreenshot == [size |-> "image", layers |-> <<[kind |-> "page"]>>]

\* ctx.stroke()/ctx.fill() of one figure in the current stroke/fill style.
Paint(cv, kind, from, to) ==
  [cv EXCEPT !.layers = Append(@, [kind |-> kind, from |-> from, to |-> to])]

\* ctx.putImageData(data, 0, 0): replaces the pixels of the rectangle the
\* data covers; the canvas keeps its own size.
putImageData(cv, data) ==
  IF data.size = cv.size
  THEN data
  ELSE IF cv.layers # <<>> /\ cv.layers[Len(cv.layers)] = [kind |-> "patch", data |-> data]
  THEN cv      \* the same pixels are already there
  ELSE [cv EXCEPT !.layers = Append(@, [kind |-> "patch", data |-> data])]

\* ctx.getImageData(0, 0, canvas.width, canvas.height)
getImageData(cv) == cv

\* Mutant of drawImage: the image is drawn without sizing the canvas to it.
drawImage_NoResize(blob) == [size |-> "default", layers |-> blob.layers]

\* canvas.width = img.width; canvas.height = img.height; drawImage(img, 0, 0)
drawImage(blob) == [size |-> blob.size, layers |-> blob.layers]

\* The shaft from `from` to `to` and the filled head at `to`: the head is
\* drawn for every pair of points, also when they coincide.
drawArrow(cv, from, to) == Paint(cv, "arrow", from, to)

\* The smaller and the larger of two coordinates.
Min(a, b) == IF a <= b THEN a ELSE b
Max(a, b) == IF a <= b THEN b ELSE a

\* Mutant of strokeRect: the outline depends on the direction it is traced in.
strokeRect_Directed(cv, from, to) ==
  IF from = to THEN cv
  ELSE Paint(cv, "rectangle", from, to)

\* ctx.strokeRect(x, y, w, h) with x, y = from and w, h = to - from: the
\* outline of the rectangle spanning x..x+w and y..y+h, w and h of either
\* sign; what is stroked is the span, whichever corner it is given from.
strokeRect(cv, from, to) ==
  IF from = to THEN cv     \* width and height both zero: no effect
  ELSE Paint(cv, "rectangle",
             <<Min(from[1], to[1]), Min(from[2], to[2])>>,
             <<Max(from[1], to[1]), Max(from[2], to[2])>>)

\* arc(start, radius = |to - from|) and stroke()
strokeArc(cv, from, to) ==
  IF from = to THEN cv     \* radius zero: a path of one point, nothing to stroke
  ELSE Paint(cv, "circle", from, to)

\* The switch (tool) of handleMouseMove; 'pen' returned earlier and 'text'
\* has no case.
DrawShape(cv, t, from, to) ==
  CASE t = "arrow" -> drawArrow(cv, from, to)
    [] t = "rectangle" -> strokeRect(cv, from, to)
    [] t = "circle" -> strokeArc(cv, from, to)
    [] OTHER -> cv

\* The number of figures a canvas shows, those inside patches included (what
\* MaxFigures bounds).
RECURSIVE NumFigures(_)
NumFigures(cv) ==
  IF cv.layers = <<>> THEN 0
  ELSE LET l == cv.layers[Len(cv.layers)]
           rest == NumFigures([cv EXCEPT !.layers = SubSeq(@, 1, Len(@) - 1)])
       IN  CASE l.kind \in {"arrow", "rectangle", "circle", "line"} -> rest + 1
             [] l.kind = "patch" -> rest + NumFigures(l.data)
             [] OTHER -> rest

\* ------------------------------------------------------------------ state
VARIABLES
  \* FeedbackModal
  screenshot, screenshotPreview, includeScreenshot, isEditingScreenshot,
  \* ScreenshotEditor
  ctx, tool, color, isDrawing, startPoint, imageData, penPath,
  canvas,        \* the <canvas> element's bitmap
  imgLoad,       \* the Image created by the load effect: none/pending/loaded/failed
  toBlobPending, \* canvas.toBlob calls whose callback has not run yet
  \* observation
  lastEvent,     \* the handler that ran last
  threw,         \* the last handler ended in an uncaught exception
  notified,      \* the editor callback prop the last handler invoked
  drag,          \* record of the current / just finished drag
  stroked,       \* a pointer-move has drawn since the editor was last opened
  shotAtOpen,    \* the modal's screenshot when the editor was opened
  delivered,     \* the toBlob request whose callback delivered a blob last
  edits          \* times the editor was opened

\* A rectangle dragged between two corners, in both directions.
VARIABLES
  cornerA, cornerB,   \* the two corner points
  canvasAB, canvasBA  \* the canvas after the drag from A to B / from B to A

rectVars == <<cornerA, cornerB, canvasAB, canvasBA>>

\* One call of an adapter's createIssue.
VARIABLES
  adapterConfig,  \* the adapter and the config it was constructed with
  feedback,       \* the FeedbackData passed to createIssue
  adapterPc,      \* idle / uploading / encoding / creating / settled
  screenshotRef,  \* GitLab: screenshotUrl; GitHub: the base64 data URL
  request,        \* the body of the issue-creation request, once sent
  outcome,        \* how the promise createIssue returned has settled
  stages          \* how the upload, the encoding and the issue request ended

adapterVars == <<adapterConfig, feedback, adapterPc, screenshotRef, request, outcome, stages>>

\* One feedback form (the React modal's or the vanilla reporter's) being
\* submitted.
VARIABLES
  host,            \* "react" (FeedbackButton / FeedbackModal) or "vanilla"
  reporterConfig,  \* the FeedbackReporterConfig: props / createFeedbackReporter argument
  form,            \* what the user entered: title, description, screenshot, checkbox
  formOpen,        \* the modal is shown
  isSubmitting,    \* React: isSubmitting; vanilla: submitBtn.disabled
  submitted,       \* the FeedbackData handed to adapter.createIssue last
  createIssueResult, \* how that createIssue call settled
  calls,           \* the callbacks invoked for the last submission, in order
  submits          \* submissions made

submitVars == <<host, reporterConfig, form, formOpen, isSubmitting, submitted,
                createIssueResult, calls, submits>>

\* A page with a FeedbackButton and a vanilla reporter.
VARIABLES
  visibility,         \* style.visibility of each element marked data-feedback-button
  captures,           \* captureScreenshot calls awaiting domtoimage.toBlob
  isModalOpen, capturedScreenshot, isCapturing,  \* FeedbackButton
  fallbackPending,    \* FeedbackModal's mount effect has yet to run with a null initialScreenshot
  buttonElement,      \* createFeedbackReporter's buttonElement
  documentButtons,    \* the buttons renderButton appended that are in the document
  rendered,           \* renderButton calls made
  vanillaModals,      \* modals openModal appended that are in the document
  lastOp,             \* the operation that ran last
  lastReturn          \* what the captureScreenshot call that returned last returned

pageVars == <<visibility, captures, isModalOpen, capturedScreenshot, isCapturing,
              fallbackPending, buttonElement, documentButtons, rendered, vanillaModals,
              lastOp, lastReturn>>

\* One FeedbackModal from mount to unmount; of its editor, what it delivers.
VARIABLES
  modal,           \* the component's useState values; NULL once it is unmounted
  objectURLs,      \* every URL.createObjectURL result so far: its blob, and whether it was revoked
  capturePending,  \* the mount effect's captureScreenshot() has not settled
  encodings,       \* canvas.toBlob calls of the editor whose callback has not run
  inFlight,        \* the FeedbackData of adapter.createIssue calls that have not settled
  callbackLog,     \* onSuccess / onError / onClose calls, in order
  attempts,        \* submit events of the form
  uploads,         \* files chosen
  history          \* what happened to the held screenshot

feedbackModalVars == <<modal, objectURLs, capturePending, encodings, inFlight, callbackLog,
                       attempts, uploads, history>>

\* What the editor's events leave alone.
outsideEditor == <<rectVars, adapterVars, submitVars, pageVars, feedbackModalVars>>

modalVars == <<screenshot, screenshotPreview, includeScreenshot, isEditingScreenshot>>
editorVars == <<ctx, tool, color, isDrawing, startPoint, imageData, penPath, canvas, imgLoad>>
obsVars == <<lastEvent, threw, notified, drag, stroked, shotAtOpen, delivered, edits>>
vars == <<modalVars, editorVars, toBlobPending, obsVars>>

\* The record of a drag: none; or one that other events interleaved with; or,
\* for a plain pointer-down, pointer-move*, pointer-up sequence, the canvas and
\* point it started from, the last point it moved to, the points the pen
\* recorded, and whether the image finished loading in the middle of it.
NoDrag == [active |-> FALSE, clean |-> FALSE]
Interleaved == [active |-> TRUE, clean |-> FALSE]

\* FeedbackModal renders <ScreenshotEditor> in place of the form.
editorMounted == isEditingScreenshot /\ screenshot # NULL

\* The modal just opened with its screenshot, no editor mounted.
ModalInit ==
  /\ screenshot = InitialScreenshot
  /\ screenshotPreview = createObjectURL(InitialScreenshot)
  /\ includeScreenshot = TRUE
  /\ isEditingScreenshot = FALSE
  /\ ctx = NULL
  /\ tool = "arrow"
  /\ color = "red"
  /\ isDrawing = FALSE
  /\ startPoint = NULL
  /\ imageData = NULL
  /\ penPath = <<>>
  /\ canvas = BlankCanvas
  /\ imgLoad = "none"
  /\ toBlobPending = <<>>
  /\ lastEvent = "init"
  /\ threw = FALSE
  /\ notified = "none"
  /\ drag = NoDrag
  /\ stroked = FALSE
  /\ shotAtOpen = NULL
  /\ delivered = NULL
  /\ edits = 0

\* No rectangle drag is being compared.
RectIdle == cornerA = NULL /\ cornerB = NULL /\ canvasAB = NULL /\ canvasBA = NULL

\* No createIssue call has been made.
NoStages == [upload |-> "none", encode |-> "none", issue |-> "none"]

AdapterIdle ==
  /\ adapterConfig = NULL
  /\ feedback = NULL
  /\ adapterPc = "idle"
  /\ screenshotRef = NULL
  /\ request = NULL
  /\ outcome = NULL
  /\ stages = NoStages

\* No feedback form is open.
SubmitIdle ==
  /\ host = NULL
  /\ reporterConfig = NULL
  /\ form = NULL
  /\ formOpen = FALSE
  /\ isSubmitting = FALSE
  /\ submitted = NULL
  /\ createIssueResult = "none"
  /\ calls = <<>>
  /\ submits = 0

\* The elements marked data-feedback-button; element 1 is the <button> of
\* the FeedbackButton.
MarkedElements == 1..NumMarked

\* The page as loaded: FeedbackButton's useState values, a reporter just
\* created, every marked element visible, no capture running.
PageIdle ==
  /\ visibility = [e \in MarkedElements |-> ""]
  /\ captures = <<>>
  /\ isModalOpen = FALSE
  /\ capturedScreenshot = NULL
  /\ isCapturing = FALSE
  /\ fallbackPending = FALSE
  /\ buttonElement = NULL
  /\ documentButtons = {}
  /\ rendered = 0
  /\ vanillaModals = 0
  /\ lastOp = "load"
  /\ lastReturn = NULL

\* No history: nothing removed, nothing saved by the editor.
NoHistory == [removed |-> FALSE, lastSaved |-> NULL, replaced |-> FALSE, saves |-> 0]

\* No FeedbackModal is followed.
FeedbackModalIdle ==
  /\ modal = NULL
  /\ objectURLs = <<>>
  /\ capturePending = FALSE
  /\ encodings = <<>>
  /\ inFlight = <<>>
  /\ callbackLog = <<>>
  /\ attempts = 0
  /\ uploads = 0
  /\ history = NoHistory

Init == ModalInit /\ RectIdle /\ AdapterIdle /\ SubmitIdle /\ PageIdle /\ FeedbackModalIdle

\* ------------------------------------------------------- ScreenshotEditor
\* useState initial values of a ScreenshotEditor instance; also the values
\* the model keeps while no editor is mounted.
EditorInitialState ==
  /\ tool' = "arrow"
  /\ color' = "red"
  /\ isDrawing' = FALSE
  /\ startPoint' = NULL
  /\ imageData' = NULL
  /\ penPath' = <<>>
  /\ canvas' = BlankCanvas

\* The load effect run on mount: getContext('2d') may yield null, and then
\* no image is created; otherwise the image starts loading.
LoadEffect(gotContext) ==
  /\ ctx' = IF gotContext THEN Context2D ELSE NULL
  /\ imgLoad' = IF gotContext THEN "pending" ELSE "none"

EditorUnmount ==
  /\ EditorInitialState
  /\ ctx' = NULL
  /\ imgLoad' = "none"

handleMouseDown(point) ==
  IF ctx = NULL
  THEN UNCHANGED <<isDrawing, startPoint, imageData, penPath>>
  ELSE /\ isDrawing' = TRUE
       /\ startPoint' = point
       /\ imageData' = getImageData(canvas)
       /\ penPath' = IF tool = "pen" THEN <<point>> ELSE penPath

handleMouseMove(point) ==
  IF ctx = NULL \/ ~isDrawing \/ startPoint = NULL \/ imageData = NULL
  THEN /\ UNCHANGED <<canvas, penPath>>
       /\ threw' = FALSE
  ELSE IF tool = "pen"
  THEN /\ penPath' = Append(penPath, point)
       /\ IF penPath = <<>>
          THEN \* penPath[penPath.length - 1] is undefined: TypeError
               /\ threw' = TRUE
               /\ UNCHANGED canvas
          ELSE /\ threw' = FALSE
               /\ canvas' = Paint(canvas, "line", penPath[Len(penPath)], point)
  ELSE /\ UNCHANGED penPath
       /\ threw' = FALSE
       /\ canvas' = DrawShape(putImageData(canvas, imageData), tool, startPoint, point)

\* Mutant of handleMouseUp: the snapshot is not released.
handleMouseUp_KeepsSnapshot ==
  /\ isDrawing' = FALSE
  /\ startPoint' = NULL
  /\ penPath' = <<>>
  /\ UNCHANGED imageData

handleMouseUp ==
  /\ isDrawing' = FALSE
  /\ startPoint' = NULL
  /\ imageData' = NULL
  /\ penPath' = <<>>

\* canvas.toBlob(callback, 'image/png'): the bitmap is copied when the call is
\* made and the callback runs later.
handleSave ==
  toBlobPending' = Append(toBlobPending,
                          [bitmap |-> canvas, stroked |-> stroked,
                           loaded |-> (imgLoad = "loaded"), source |-> screenshot,
                           age |-> 0])

\* ---------------------------------------------------------- FeedbackModal
handleEditScreenshot == isEditingScreenshot' = TRUE

handleSaveEditedScreenshot(editedBlob) ==
  /\ screenshot' = editedBlob
  /\ screenshotPreview' = createObjectURL(editedBlob)
  /\ isEditingScreenshot' = FALSE

handleCancelEdit == isEditingScreenshot' = FALSE

\* ----------------------------------------------------------------- events
\* An editor event is handled while encodings are in flight.
EncodingContinues ==
  /\ \A i \in DOMAIN toBlobPending : toBlobPending[i].age < MaxEncodeEvents
  /\ toBlobPending' = [i \in DOMAIN toBlobPending |-> [toBlobPending[i] EXCEPT !.age = @ + 1]]

\* What another event does to the record of the drag: it marks a drag that is
\* still in progress, and forgets a finished one.
Interrupt == IF isDrawing THEN Interleaved ELSE NoDrag

\* The Edit button (or the preview image) of the modal is clicked; the editor
\* is rendered and its load effect runs.
EditScreenshot ==
  /\ ~isEditingScreenshot
  /\ screenshotPreview # NULL
  /\ includeScreenshot
  /\ edits < MaxEdits
  /\ edits' = edits + 1
  /\ delivered' = NULL
  /\ handleEditScreenshot
  /\ \E gotContext \in BOOLEAN : LoadEffect(gotContext)
  /\ EditorInitialState
  /\ stroked' = FALSE
  /\ shotAtOpen' = screenshot
  /\ UNCHANGED outsideEditor
  /\ lastEvent' = "edit"
  /\ notified' = "none"
  /\ threw' = FALSE
  /\ drag' = NoDrag
  /\ UNCHANGED <<screenshot, screenshotPreview, includeScreenshot, toBlobPending>>

\* img.onload
ImgOnload ==
  /\ editorMounted
  /\ EncodingContinues
  /\ imgLoad = "pending"
  /\ imgLoad' = "loaded"
  /\ canvas' = drawImage(screenshot)
  /\ UNCHANGED outsideEditor
  /\ lastEvent' = "other"
  /\ notified' = "none"
  /\ threw' = FALSE
  /\ drag' = IF ~isDrawing THEN NoDrag
             ELSE IF drag.clean THEN [drag EXCEPT !.loaded = TRUE] ELSE drag
  /\ UNCHANGED <<modalVars, ctx, tool, color, isDrawing, startPoint, imageData, penPath, stroked, shotAtOpen, delivered, edits>>

\* The image cannot be decoded: onload never runs, and no onerror is set.
ImgError ==
  /\ editorMounted
  /\ EncodingContinues
  /\ imgLoad = "pending"
  /\ imgLoad' = "failed"
  /\ UNCHANGED outsideEditor
  /\ lastEvent' = "other"
  /\ notified' = "none"
  /\ threw' = FALSE
  /\ drag' = IF isDrawing THEN drag ELSE NoDrag
  /\ UNCHANGED <<modalVars, ctx, tool, color, isDrawing, startPoint, imageData, penPath,
                 canvas, stroked, shotAtOpen, delivered, edits>>

MouseDown(point) ==
  /\ editorMounted
  /\ EncodingContinues
  /\ handleMouseDown(point)
  /\ UNCHANGED outsideEditor
  /\ lastEvent' = "down"
  /\ notified' = "none"
  /\ threw' = FALSE
  /\ drag' = IF ctx = NULL THEN NoDrag
             ELSE [active |-> TRUE, clean |-> TRUE, snap |-> canvas, start |-> point,
                   last |-> NULL, path |-> penPath', loaded |-> FALSE]
  /\ UNCHANGED <<modalVars, ctx, tool, color, canvas, imgLoad,
                 stroked, shotAtOpen, delivered, edits>>

MouseMove(point) ==
  /\ editorMounted
  /\ EncodingContinues
  /\ handleMouseMove(point)
  /\ NumFigures(canvas') <= MaxFigures
  /\ Len(penPath') <= MaxPath
  /\ UNCHANGED outsideEditor
  /\ lastEvent' = "move"
  /\ notified' = "none"
  /\ stroked' = (stroked \/ (ctx # NULL /\ isDrawing))
  /\ drag' = IF ~isDrawing THEN NoDrag
             ELSE IF drag.clean THEN [drag EXCEPT !.last = point, !.path = penPath'] ELSE drag
  /\ UNCHANGED <<modalVars, ctx, tool, color, isDrawing, startPoint, imageData, imgLoad, shotAtOpen, delivered, edits>>

MouseUp ==
  /\ editorMounted
  /\ EncodingContinues
  /\ handleMouseUp
  /\ UNCHANGED outsideEditor
  /\ lastEvent' = "up"
  /\ notified' = "none"
  /\ threw' = FALSE
  /\ drag' = NoDrag
  /\ UNCHANGED <<modalVars, ctx, tool, color, canvas, imgLoad,
                 stroked, shotAtOpen, delivered, edits>>

\* Mutant of MouseLeave: the canvas has no onMouseLeave binding.
MouseLeave_Unbound ==
  /\ editorMounted
  /\ EncodingContinues
  /\ UNCHANGED outsideEditor
  /\ lastEvent' = "leave"
  /\ notified' = "none"
  /\ threw' = FALSE
  /\ drag' = NoDrag
  /\ UNCHANGED <<modalVars, editorVars, stroked, shotAtOpen, delivered, edits>>

\* onMouseLeave={handleMouseUp}
MouseLeave ==
  /\ editorMounted
  /\ EncodingContinues
  /\ handleMouseUp
  /\ UNCHANGED outsideEditor
  /\ lastEvent' = "leave"
  /\ notified' = "none"
  /\ threw' = FALSE
  /\ drag' = NoDrag
  /\ UNCHANGED <<modalVars, ctx, tool, color, canvas, imgLoad,
                 stroked, shotAtOpen, delivered, edits>>

\* Mutant of SetTool: selecting a tool re-initialises the canvas.
SetTool_ClearsCanvas(t) ==
  /\ editorMounted
  /\ EncodingContinues
  /\ t \in toolButtons
  /\ tool' = t
  /\ canvas' = BlankCanvas
  /\ UNCHANGED outsideEditor
  /\ lastEvent' = "other"
  /\ notified' = "none"
  /\ threw' = FALSE
  /\ drag' = Interrupt
  /\ UNCHANGED <<modalVars, ctx, color, isDrawing, startPoint, imageData, penPath,
                 imgLoad, stroked, shotAtOpen, delivered, edits>>

SetTool(t) ==
  /\ editorMounted
  /\ EncodingContinues
  /\ t \in toolButtons
  /\ tool' = t
  /\ UNCHANGED outsideEditor
  /\ lastEvent' = "other"
  /\ notified' = "none"
  /\ threw' = FALSE
  /\ drag' = Interrupt
  /\ UNCHANGED <<modalVars, ctx, color, isDrawing, startPoint, imageData, penPath, canvas,
                 imgLoad, stroked, shotAtOpen, delivered, edits>>

SetColor(c) ==
  /\ editorMounted
  /\ EncodingContinues
  /\ c \in colorButtons
  /\ color' = c
  /\ UNCHANGED outsideEditor
  /\ lastEvent' = "other"
  /\ notified' = "none"
  /\ threw' = FALSE
  /\ drag' = Interrupt
  /\ UNCHANGED <<modalVars, ctx, tool, isDrawing, startPoint, imageData, penPath, canvas,
                 imgLoad, stroked, shotAtOpen, delivered, edits>>

\* The Speichern button.
Save ==
  /\ editorMounted
  /\ Len(toBlobPending) < MaxPending
  /\ handleSave
  /\ UNCHANGED outsideEditor
  /\ lastEvent' = "other"
  /\ notified' = "none"
  /\ threw' = FALSE
  /\ drag' = Interrupt
  /\ UNCHANGED <<modalVars, editorVars, stroked, shotAtOpen, delivered, edits>>

\* The toBlob callback runs with the encoded blob: onSave(blob).
ToBlobDone ==
  /\ toBlobPending # <<>>
  /\ handleSaveEditedScreenshot(Head(toBlobPending).bitmap)
  /\ toBlobPending' = Tail(toBlobPending)
  /\ delivered' = Head(toBlobPending)
  /\ EditorUnmount
  /\ UNCHANGED outsideEditor
  /\ lastEvent' = "saved"
  /\ notified' = "onSave"
  /\ threw' = FALSE
  /\ drag' = NoDrag
  /\ UNCHANGED <<includeScreenshot, stroked, shotAtOpen, edits>>

\* The toBlob callback runs with null: nothing is called.
ToBlobNull ==
  /\ toBlobPending # <<>>
  /\ toBlobPending' = Tail(toBlobPending)
  /\ UNCHANGED outsideEditor
  /\ lastEvent' = "encodefailed"
  /\ notified' = "none"
  /\ threw' = FALSE
  /\ drag' = Interrupt
  /\ UNCHANGED <<modalVars, editorVars, stroked, shotAtOpen, delivered, edits>>

\* Mutant of Cancel: the button is wired to onSave with the canvas content.
Cancel_WiredToSave ==
  /\ editorMounted
  /\ handleSaveEditedScreenshot(canvas)
  /\ EditorUnmount
  /\ UNCHANGED outsideEditor
  /\ lastEvent' = "cancel"
  /\ notified' = "onSave"
  /\ threw' = FALSE
  /\ drag' = NoDrag
  /\ UNCHANGED <<includeScreenshot, toBlobPending, stroked, shotAtOpen, delivered, edits>>

\* The Abbrechen button: onCancel().
Cancel ==
  /\ editorMounted
  /\ handleCancelEdit
  /\ EditorUnmount
  /\ UNCHANGED outsideEditor
  /\ lastEvent' = "cancel"
  /\ notified' = "onCancel"
  /\ threw' = FALSE
  /\ drag' = NoDrag
  /\ UNCHANGED <<screenshot, screenshotPreview, includeScreenshot, toBlobPending,
                 stroked, shotAtOpen, delivered, edits>>

Next ==
  \/ EditScreenshot
  \/ ImgOnload
  \/ ImgError
  \/ \E point \in Points : MouseDown(point)
  \/ \E point \in Points : MouseMove(point)
  \/ MouseUp
  \/ MouseLeave
  \/ \E t \in DrawingTool : SetTool(t)
  \/ \E c \in DrawingColor : SetColor(c)
  \/ Save
  \/ ToBlobDone
  \/ ToBlobNull
  \/ Cancel

Spec == Init /\ [][Next]_vars

\* ------------------------------------------- rectangle drags, both directions
Corners == (0..GridMax) \X (0..GridMax)

\* The canvas once the screenshot has loaded.
LoadedCanvas == drawImage(InitialScreenshot)

\* The canvas a rectangle drag from `from` to `to` on the loaded canvas leaves:
\* the snapshot of handleMouseDown, and the last handleMouseMove's
\* putImageData and strokeRect.
RectangleDrag(from, to) ==
  DrawShape(putImageData(LoadedCanvas, getImageData(LoadedCanvas)), "rectangle", from, to)

RectInit ==
  /\ ModalInit
  /\ FeedbackModalIdle
  /\ AdapterIdle
  /\ SubmitIdle
  /\ PageIdle
  /\ cornerA \in Corners
  /\ cornerB \in Corners
  /\ canvasAB = NULL
  /\ canvasBA = NULL

DragFromAToB ==
  /\ canvasAB = NULL
  /\ canvasAB' = RectangleDrag(cornerA, cornerB)
  /\ UNCHANGED <<cornerA, cornerB, canvasBA, vars, feedbackModalVars, adapterVars, submitVars, pageVars>>

DragFromBToA ==
  /\ canvasBA = NULL
  /\ canvasBA' = RectangleDrag(cornerB, cornerA)
  /\ UNCHANGED <<cornerA, cornerB, canvasAB, vars, feedbackModalVars, adapterVars, submitVars, pageVars>>

RectNext == DragFromAToB \/ DragFromBToA

RectSpec == RectInit /\ [][RectNext]_<<vars, outsideEditor>>

\* ------------------------------------------------- GitLab / GitHub adapters
\* rec.f || otherwise, for an optional array field (an array, even an empty
\* one, is truthy).
OrElse(rec, f, otherwise) == IF f \in DOMAIN rec THEN rec[f] ELSE otherwise

\* Configs the adapters are constructed with: labels and assignees optional.
GitLabConfigs ==
  {[adapter |-> "gitlab"],
   [adapter |-> "gitlab", labels |-> <<"bug">>],
   [adapter |-> "gitlab", labels |-> <<"bug">>, assigneeIds |-> <<7>>]}

GitHubConfigs ==
  {[adapter |-> "github"],
   [adapter |-> "github", labels |-> <<"bug">>],
   [adapter |-> "github", labels |-> <<>>, assignees |-> <<"octocat">>]}

\* getSystemMetadata()
SystemMetadata == [browser |-> "Firefox", os |-> "Linux"]

\* The FeedbackData a caller passes: screenshot and metadata may be undefined.
\* The interface has no labels field and no caller of this repository adds
\* one, so feedback.labels is undefined in createIssue.
FeedbackInputs ==
  {[title |-> "t", description |-> "d", screenshot |-> s, metadata |-> m] :
     s \in {NULL, InitialScreenshot}, m \in {NULL, SystemMetadata}}

\* How a fetch of the upload endpoint and the reading of its answer can end.
UploadOutcomes == {"ok", "network", "status", "json", "nourl"}

\* How the FileReader of blobToBase64 can end.
EncodeOutcomes == {"ok", "error"}

\* How the fetch of the issue endpoint and the reading of its answer can end.
IssueOutcomes == {"ok", "network", "status", "json"}

\* GitLabAdapter.uploadScreenshot: the url of a 201 answer, else null; every
\* exception is caught.
uploadScreenshot(blob, o) == IF o = "ok" THEN [upload |-> blob] ELSE NULL

\* blobToBase64 resolved.
blobToBase64(blob) == [base64 |-> blob]

\* fullDescription: the description, the metadata section and the screenshot
\* section, the last two present when there is metadata / a screenshot
\* reference.
fullDescription(fb, ref) ==
  [description |-> fb.description, metadata |-> fb.metadata, screenshot |-> ref]

\* The JSON body of the issue-creation request.
IssueRequestBody(cfg, fb, ref) ==
  IF cfg.adapter = "gitlab"
  THEN [title |-> fb.title,
        description |-> fullDescription(fb, ref),
        labels |-> OrElse(fb, "labels", <<>>),
        assignees |-> OrElse(cfg, "assigneeIds", <<>>)]
  ELSE [title |-> fb.title,
        description |-> fullDescription(fb, ref),
        labels |-> OrElse(cfg, "labels", <<"feedback", "user-report">>),
        assignees |-> OrElse(cfg, "assignees", <<>>)]

\* The IssueResponse built from the tracker's answer.
IssueResponse(body) == [id |-> 1, url |-> "issue-url", title |-> body.title]

Resolved(value) == [settled |-> "resolved", value |-> value]

\* Mutant of Caught: the exception leaves createIssue.
Caught_Rethrown == [settled |-> "rejected"]

\* catch (error) { console.error(...); return null; }
Caught == Resolved(NULL)

AdapterInit ==
  /\ ModalInit
  /\ FeedbackModalIdle
  /\ RectIdle
  /\ SubmitIdle
  /\ PageIdle
  /\ adapterConfig \in GitLabConfigs \cup GitHubConfigs
  /\ feedback \in FeedbackInputs
  /\ adapterPc = "idle"
  /\ screenshotRef = NULL
  /\ request = NULL
  /\ outcome = NULL
  /\ stages = NoStages

\* createIssue is called: with a screenshot GitLab uploads it and GitHub
\* encodes it first; without one the issue request is sent at once.
CreateIssue ==
  /\ adapterPc = "idle"
  /\ IF feedback.screenshot # NULL
     THEN /\ adapterPc' = IF adapterConfig.adapter = "gitlab" THEN "uploading" ELSE "encoding"
          /\ UNCHANGED request
     ELSE /\ adapterPc' = "creating"
          /\ request' = IssueRequestBody(adapterConfig, feedback, NULL)
  /\ UNCHANGED <<adapterConfig, feedback, screenshotRef, outcome, stages, vars, feedbackModalVars, rectVars, submitVars, pageVars>>

\* await this.uploadScreenshot(feedback.screenshot) returns, and the issue
\* request is sent.
UploadSettles ==
  /\ adapterPc = "uploading"
  /\ \E o \in UploadOutcomes :
       /\ screenshotRef' = uploadScreenshot(feedback.screenshot, o)
       /\ stages' = [stages EXCEPT !.upload = o]
  /\ request' = IssueRequestBody(adapterConfig, feedback, screenshotRef')
  /\ adapterPc' = "creating"
  /\ UNCHANGED <<adapterConfig, feedback, outcome, vars, feedbackModalVars, rectVars, submitVars, pageVars>>

\* await blobToBase64(feedback.screenshot) settles: resolved, the issue
\* request is sent; rejected, the catch block returns null.
EncodeSettles ==
  /\ adapterPc = "encoding"
  /\ \E o \in EncodeOutcomes :
       /\ stages' = [stages EXCEPT !.encode = o]
       /\ IF o = "ok"
          THEN /\ screenshotRef' = blobToBase64(feedback.screenshot)
               /\ request' = IssueRequestBody(adapterConfig, feedback, screenshotRef')
               /\ adapterPc' = "creating"
               /\ UNCHANGED outcome
          ELSE /\ outcome' = Caught
               /\ adapterPc' = "settled"
               /\ UNCHANGED <<screenshotRef, request>>
  /\ UNCHANGED <<adapterConfig, feedback, vars, feedbackModalVars, rectVars, submitVars, pageVars>>

\* The fetch of the issue endpoint settles: response.ok and a readable
\* answer give an IssueResponse; a non-OK status returns null; an exception
\* of fetch or of response.json() is caught.
IssueRequestSettles ==
  /\ adapterPc = "creating"
  /\ \E o \in IssueOutcomes :
       /\ stages' = [stages EXCEPT !.issue = o]
       /\ outcome' = CASE o = "ok" -> Resolved(IssueResponse(request))
                        [] o = "status" -> Resolved(NULL)
                        [] OTHER -> Caught
  /\ adapterPc' = "settled"
  /\ UNCHANGED <<adapterConfig, feedback, screenshotRef, request, vars, feedbackModalVars, rectVars, submitVars, pageVars>>

AdapterNext == CreateIssue \/ UploadSettles \/ EncodeSettles \/ IssueRequestSettles

AdapterSpec == AdapterInit /\ [][AdapterNext]_<<vars, outsideEditor>>

\* ------------------------------------------- submitting the feedback form
\* String.prototype.trim on the titles and descriptions the model enters.
Trim(s) == IF s = " " THEN "" ELSE s

\* What the user can have typed into a required field.
Typed == {" ", "text"}

\* How a callback of the config behaves when it is called; absent when the
\* config does not give it.
OnSuccessBehaviours == {"absent", "returns", "throws"}
OnErrorBehaviours == {"absent", "returns"}

\* FeedbackReporterConfig (the adapter aside): labels and includeMetadata are
\* optional.
ReporterConfigs ==
  LET base == {[onSuccess |-> s, onError |-> e] :
                 s \in OnSuccessBehaviours, e \in OnErrorBehaviours}
      withMetadata ==
        base \cup {[onSuccess |-> c.onSuccess, onError |-> c.onError, includeMetadata |-> b] :
                     c \in base, b \in BOOLEAN}
  IN  withMetadata \cup
        {[onSuccess |-> c.onSuccess, onError |-> c.onError, labels |-> <<"bug">>] : c \in base}

\* The includeMetadata the submit handler reads.  React: the prop's default
\* value `includeMetadata = true` of FeedbackButton and FeedbackModal.
\* Vanilla: config.includeMetadata as given, undefined when omitted.
includeMetadata(h, cfg) ==
  IF h = "react"
  THEN OrElse(cfg, "includeMetadata", TRUE)
  ELSE OrElse(cfg, "includeMetadata", FALSE)

\* const feedbackData: FeedbackData = {title, description, screenshot,
\* metadata}: the same four fields in both submit handlers.
feedbackData(h, cfg, f) ==
  [title |-> Trim(f.title),
   description |-> Trim(f.description),
   screenshot |-> IF f.includeScreenshot /\ f.screenshot # NULL THEN f.screenshot ELSE NULL,
   metadata |-> IF includeMetadata(h, cfg) THEN SystemMetadata ELSE NULL]

\* How adapter.createIssue (any IssueTrackerAdapter) can settle.
CreateIssueResults == {"response", "null", "rejected"}

SubmitInit ==
  /\ ModalInit
  /\ FeedbackModalIdle
  /\ RectIdle
  /\ AdapterIdle
  /\ PageIdle
  /\ host \in {"react", "vanilla"}
  /\ reporterConfig \in ReporterConfigs
  /\ form \in [title : Typed, description : Typed,
                screenshot : {NULL, InitialScreenshot}, includeScreenshot : BOOLEAN]
  /\ formOpen = TRUE
  /\ isSubmitting = FALSE
  /\ submitted = NULL
  /\ createIssueResult = "none"
  /\ calls = <<>>
  /\ submits = 0

\* The form's submit event.  React refuses a blank title or description
\* before anything else; the vanilla handler has no such check.
SubmitForm ==
  /\ formOpen
  /\ ~isSubmitting
  /\ submits < MaxSubmits
  /\ submits' = submits + 1
  /\ IF host = "react" /\ (Trim(form.title) = "" \/ Trim(form.description) = "")
     THEN UNCHANGED <<isSubmitting, submitted, createIssueResult, calls>>
     ELSE /\ isSubmitting' = TRUE
          /\ submitted' = feedbackData(host, reporterConfig, form)
          /\ createIssueResult' = "pending"
          /\ calls' = <<>>
  /\ UNCHANGED <<host, reporterConfig, form, formOpen, vars, feedbackModalVars, rectVars, adapterVars, pageVars>>

\* The user corrects a blank field.
EditForm ==
  /\ formOpen
  /\ ~isSubmitting
  /\ \E s \in Typed : form' = [form EXCEPT !.title = s, !.description = s]
  /\ form' # form
  /\ UNCHANGED <<host, reporterConfig, formOpen, isSubmitting, submitted,
                 createIssueResult, calls, submits, vars, feedbackModalVars, rectVars, adapterVars, pageVars>>

\* await adapter.createIssue(feedbackData) settles and the rest of the
\* try / catch / finally runs.  Everything after the await is inside the
\* try block: an exception of onSuccess is caught like one of createIssue.
CreateIssueSettles ==
  /\ createIssueResult = "pending"
  /\ \E r \in CreateIssueResults :
       /\ createIssueResult' = r
       /\ LET success == IF reporterConfig.onSuccess = "absent" THEN <<>> ELSE <<"onSuccess">>
              failure == IF reporterConfig.onError = "absent" THEN <<>> ELSE <<"onError">>
          IN  IF r = "response"
              THEN IF reporterConfig.onSuccess = "throws"
                   THEN /\ calls' = success \o failure
                        /\ UNCHANGED formOpen
                   ELSE /\ calls' = success
                        /\ formOpen' = FALSE
              ELSE /\ calls' = failure
                   /\ UNCHANGED formOpen
  /\ isSubmitting' = FALSE
  /\ UNCHANGED <<host, reporterConfig, form, submitted, submits, vars, feedbackModalVars, rectVars, adapterVars, pageVars>>

SubmitNext == SubmitForm \/ EditForm \/ CreateIssueSettles

SubmitSpec == SubmitInit /\ [][SubmitNext]_<<vars, outsideEditor>>

\* ------------------- captureScreenshot, FeedbackButton, createFeedbackReporter
\* How domtoimage.toBlob can settle: with a blob, with null, or by throwing.
CaptureOutcomes == {"blob", "null", "error"}

\* The callers of captureScreenshot in this repository: FeedbackButton's
\* handleOpenModal, FeedbackModal's mount effect, the reporter's openModal.
CaptureCallers == {"button", "modal", "vanilla"}

\* feedbackButtons.forEach(btn => btn.style.visibility = 'hidden')
HideFeedbackButtons(vis) == [e \in DOMAIN vis |-> "hidden"]

\* Mutant of ShowFeedbackButtons: the buttons are left as they are.
ShowFeedbackButtons_Skipped(vis) == vis

\* feedbackButtons.forEach(btn => btn.style.visibility = ''), after the
\* await and again in the catch block.
ShowFeedbackButtons(vis) == [e \in DOMAIN vis |-> ""]

\* How the promise of captureScreenshot settles: resolved with what
\* domtoimage resolved to (a blob or null), and, when the try block threw,
\* resolved with the null the catch block returns.
CapturePromise(o) ==
  CASE o = "blob" -> Resolved(InitialScreenshot)
    [] o = "null" -> Resolved(NULL)
    [] OTHER -> Resolved(NULL)

\* What a caller's `await captureScreenshot()` evaluates to.
CaptureResult(o) == CapturePromise(o).value

\* Removes the i-th element of a sequence.
RemoveAt(s, i) == SubSeq(s, 1, i - 1) \o SubSeq(s, i + 1, Len(s))

\* captureScreenshot() up to its await.
BeginCapture(caller) ==
  /\ visibility' = HideFeedbackButtons(visibility)
  /\ captures' = Append(captures, [caller |-> caller, undisturbed |-> TRUE])

PageInit == ModalInit /\ RectIdle /\ AdapterIdle /\ SubmitIdle /\ PageIdle /\ FeedbackModalIdle

\* Mutant of Click: the modal is opened before the screenshot is captured.
Click_OpensModalFirst ==
  /\ ~isCapturing
  /\ visibility[1] = ""
  /\ Len(captures) < MaxCaptures
  /\ isCapturing' = TRUE
  /\ isModalOpen' = TRUE
  /\ BeginCapture("button")
  /\ lastOp' = "click"
  /\ UNCHANGED <<capturedScreenshot, fallbackPending, buttonElement,
                 documentButtons, rendered, vanillaModals, lastReturn,
                 vars, feedbackModalVars, rectVars, adapterVars, submitVars>>

\* The FeedbackButton is clicked (it is neither disabled nor hidden):
\* handleOpenModal up to its await.
Click ==
  /\ ~isCapturing
  /\ visibility[1] = ""
  /\ Len(captures) < MaxCaptures
  /\ isCapturing' = TRUE
  /\ BeginCapture("button")
  /\ lastOp' = "click"
  /\ UNCHANGED <<isModalOpen, capturedScreenshot, fallbackPending, buttonElement,
                 documentButtons, rendered, vanillaModals, lastReturn,
                 vars, feedbackModalVars, rectVars, adapterVars, submitVars>>

\* FeedbackModal's mount effect finds initialScreenshot null and captures.
ModalFallbackCapture ==
  /\ fallbackPending
  /\ Len(captures) < MaxCaptures
  /\ fallbackPending' = FALSE
  /\ BeginCapture("modal")
  /\ lastOp' = "fallback"
  /\ UNCHANGED <<isModalOpen, capturedScreenshot, isCapturing, buttonElement,
                 documentButtons, rendered, vanillaModals, lastReturn,
                 vars, feedbackModalVars, rectVars, adapterVars, submitVars>>

\* The reporter's openModal() is called (by a rendered button's click
\* listener or by the page): up to its await.
OpenModal ==
  /\ Len(captures) < MaxCaptures
  /\ BeginCapture("vanilla")
  /\ lastOp' = "openModal"
  /\ UNCHANGED <<isModalOpen, capturedScreenshot, isCapturing, fallbackPending,
                 buttonElement, documentButtons, rendered, vanillaModals, lastReturn,
                 vars, feedbackModalVars, rectVars, adapterVars, submitVars>>

\* domtoimage.toBlob settles for one capture in flight; captureScreenshot
\* shows the buttons again and returns, and its caller continues:
\* handleOpenModal stores the blob and opens the modal, openModal appends
\* its modal, the mount effect stores the blob in the modal.
CaptureSettles ==
  \E i \in DOMAIN captures : \E o \in CaptureOutcomes :
    /\ captures[i].caller = "vanilla" => vanillaModals < MaxModals
    /\ visibility' = ShowFeedbackButtons(visibility)
    /\ captures' = [j \in DOMAIN RemoveAt(captures, i) |->
                      [RemoveAt(captures, i)[j] EXCEPT !.undisturbed = FALSE]]
    /\ lastReturn' = [caller |-> captures[i].caller, outcome |-> o,
                      promise |-> CapturePromise(o)]
    /\ lastOp' = "captureReturned"
    /\ IF captures[i].caller = "button"
       THEN /\ capturedScreenshot' = CaptureResult(o)
            /\ isCapturing' = FALSE
            /\ isModalOpen' = TRUE
            /\ fallbackPending' = (CaptureResult(o) = NULL)
       ELSE UNCHANGED <<capturedScreenshot, isCapturing, isModalOpen, fallbackPending>>
    /\ vanillaModals' = IF captures[i].caller = "vanilla" THEN vanillaModals + 1
                        ELSE vanillaModals
    /\ UNCHANGED <<buttonElement, documentButtons, rendered,
                   vars, feedbackModalVars, rectVars, adapterVars, submitVars>>

\* handleCloseModal
CloseModal ==
  /\ isModalOpen
  /\ isModalOpen' = FALSE
  /\ capturedScreenshot' = NULL
  /\ fallbackPending' = FALSE
  /\ lastOp' = "closeModal"
  /\ UNCHANGED <<visibility, captures, isCapturing, buttonElement, documentButtons,
                 rendered, vanillaModals, lastReturn,
                 vars, feedbackModalVars, rectVars, adapterVars, submitVars>>

\* document.createElement('button'), the n-th one of the reporter.
createButton(n) == [tagName |-> "BUTTON", n |-> n]

\* renderButton(): a new button is appended and remembered as buttonElement.
RenderButton ==
  /\ rendered < MaxRendered
  /\ rendered' = rendered + 1
  /\ documentButtons' = documentButtons \cup {createButton(rendered + 1)}
  /\ buttonElement' = createButton(rendered + 1)
  /\ lastOp' = "renderButton"
  /\ UNCHANGED <<visibility, captures, isModalOpen, capturedScreenshot, isCapturing,
                 fallbackPending, vanillaModals, lastReturn,
                 vars, feedbackModalVars, rectVars, adapterVars, submitVars>>

\* closeModal of the vanilla modal (cancel, overlay click, after a success).
CloseVanillaModal ==
  /\ vanillaModals > 0
  /\ vanillaModals' = vanillaModals - 1
  /\ lastOp' = "closeVanillaModal"
  /\ UNCHANGED <<visibility, captures, isModalOpen, capturedScreenshot, isCapturing,
                 fallbackPending, buttonElement, documentButtons, rendered, lastReturn,
                 vars, feedbackModalVars, rectVars, adapterVars, submitVars>>

\* destroy(): removes buttonElement, if there is one, and forgets it.
Destroy ==
  /\ IF buttonElement # NULL
     THEN /\ documentButtons' = documentButtons \ {buttonElement}
          /\ buttonElement' = NULL
     ELSE UNCHANGED <<documentButtons, buttonElement>>
  /\ lastOp' = "destroy"
  /\ UNCHANGED <<visibility, captures, isModalOpen, capturedScreenshot, isCapturing,
                 fallbackPending, rendered, vanillaModals, lastReturn,
                 vars, feedbackModalVars, rectVars, adapterVars, submitVars>>

PageNext ==
  \/ Click
  \/ ModalFallbackCapture
  \/ OpenModal
  \/ CaptureSettles
  \/ CloseModal
  \/ RenderButton
  \/ CloseVanillaModal
  \/ Destroy

PageSpec == PageInit /\ [][PageNext]_<<vars, outsideEditor>>

\* ------------------------------------------ FeedbackModal, mount to unmount
\* Everything but the FeedbackModal followed here.
outsideFeedbackModal == <<vars, rectVars, adapterVars, submitVars, pageVars>>

\* What a required text field can hold: nothing, white space, text.
FieldValues == Typed \cup {""}

\* The callbacks FeedbackButton passes on; includeMetadata keeps its default.
ModalProps == [onSuccess |-> "returns", onError |-> "returns"]

\* What the mount effect's captureScreenshot() yields when it succeeds: the
\* page as it is once the modal is on it.
FallbackScreenshot == [size |-> "image", layers |-> <<[kind |-> "page"], [kind |-> "modal"]>>]

\* The n-th File picked in the file input.
ChosenFile(n) == [name |-> "upload.png", n |-> n]

\* The Blob the n-th canvas.toBlob call encodes: the screenshot the editor
\* was given, redrawn and annotated.
EditedBlob(source, n) == [type |-> "image/png", edited |-> source, n |-> n]

\* The useState values of the first render.
FirstRender(initial) ==
  [title |-> "", description |-> "", screenshot |-> initial, screenshotPreview |-> NULL,
   isSubmitting |-> FALSE, includeScreenshot |-> TRUE, isEditingScreenshot |-> FALSE]

\* URL.createObjectURL(blob): a URL no earlier call has returned.
NextObjectURL(urls) == [url |-> Len(urls) + 1]

CreateURL(urls, blob) == Append(urls, [blob |-> blob, revoked |-> FALSE])

\* if (preview) { URL.revokeObjectURL(preview) }
revokeObjectURL(urls, preview) ==
  IF preview = NULL THEN urls ELSE [urls EXCEPT ![preview.url].revoked = TRUE]

mounted == modal # NULL

\* FeedbackModal returns the editor in place of the form.
editorShown == mounted /\ modal.isEditingScreenshot /\ modal.screenshot # NULL

formShown == mounted /\ ~(modal.isEditingScreenshot /\ modal.screenshot # NULL)

\* The modal after its first render and its mount effect: the preview URL of
\* the initial screenshot, or else the fallback capture under way.
FeedbackModalInit ==
  /\ ModalInit
  /\ RectIdle
  /\ AdapterIdle
  /\ SubmitIdle
  /\ PageIdle
  /\ \E initial \in {NULL, InitialScreenshot} :
       /\ modal = IF initial = NULL
                  THEN FirstRender(NULL)
                  ELSE [FirstRender(initial) EXCEPT !.screenshotPreview = NextObjectURL(<<>>)]
       /\ objectURLs = IF initial = NULL THEN <<>> ELSE CreateURL(<<>>, initial)
       /\ capturePending = (initial = NULL)
  /\ encodings = <<>>
  /\ inFlight = <<>>
  /\ callbackLog = <<>>
  /\ attempts = 0
  /\ uploads = 0
  /\ history = NoHistory

\* onClose is FeedbackButton's handleCloseModal: the modal is unmounted and
\* the cleanup of its mount effect runs.  The effect has the dependency list
\* [initialScreenshot], so the cleanup is the one created by the first
\* render and revokes the screenshotPreview of that render.
Unmount ==
  IF mounted
  THEN /\ modal' = NULL
       /\ objectURLs' = revokeObjectURL(objectURLs, FirstRender(NULL).screenshotPreview)
  ELSE UNCHANGED <<modal, objectURLs>>

\* onChange of the title input
SetTitle(s) ==
  /\ formShown
  /\ ~modal.isSubmitting
  /\ s # modal.title
  /\ modal' = [modal EXCEPT !.title = s]
  /\ UNCHANGED <<objectURLs, capturePending, encodings, inFlight, callbackLog, attempts,
                 uploads, history, outsideFeedbackModal>>

\* onChange of the description textarea
SetDescription(s) ==
  /\ formShown
  /\ ~modal.isSubmitting
  /\ s # modal.description
  /\ modal' = [modal EXCEPT !.description = s]
  /\ UNCHANGED <<objectURLs, capturePending, encodings, inFlight, callbackLog, attempts,
                 uploads, history, outsideFeedbackModal>>

\* The captureScreenshot() of the mount effect settles, with a blob or with
\* null; a blob is stored and gets a preview URL.  State updates of an
\* unmounted component are dropped.
FallbackCaptureSettles ==
  /\ capturePending
  /\ capturePending' = FALSE
  /\ \E blob \in {NULL, FallbackScreenshot} :
       IF blob = NULL
       THEN UNCHANGED <<modal, objectURLs, history>>
       ELSE /\ objectURLs' = CreateURL(objectURLs, blob)
            /\ modal' = IF mounted
                        THEN [modal EXCEPT !.screenshot = blob,
                                           !.screenshotPreview = NextObjectURL(objectURLs)]
                        ELSE NULL
            /\ history' = IF mounted THEN [history EXCEPT !.replaced = TRUE] ELSE history
  /\ UNCHANGED <<encodings, inFlight, callbackLog, attempts, uploads, outsideFeedbackModal>>

\* onChange of the file input, rendered while there is no preview.
ChooseFile ==
  /\ formShown
  /\ modal.screenshotPreview = NULL
  /\ ~modal.isSubmitting
  /\ uploads < MaxUploads
  /\ uploads' = uploads + 1
  /\ objectURLs' = CreateURL(objectURLs, ChosenFile(uploads + 1))
  /\ modal' = [modal EXCEPT !.screenshot = ChosenFile(uploads + 1),
                            !.screenshotPreview = NextObjectURL(objectURLs),
                            !.includeScreenshot = TRUE]
  /\ history' = [history EXCEPT !.removed = FALSE, !.replaced = TRUE]
  /\ UNCHANGED <<capturePending, encodings, inFlight, callbackLog, attempts,
                 outsideFeedbackModal>>

\* onChange of the 'Include screenshot' checkbox, rendered while there is a
\* preview.
SetIncludeScreenshot ==
  /\ formShown
  /\ modal.screenshotPreview # NULL
  /\ ~modal.isSubmitting
  /\ modal' = [modal EXCEPT !.includeScreenshot = ~@]
  /\ UNCHANGED <<objectURLs, capturePending, encodings, inFlight, callbackLog, attempts,
                 uploads, history, outsideFeedbackModal>>

\* handleEditScreenshot, from the preview image (which is never disabled) or
\* the Edit button.
EditClicked ==
  /\ formShown
  /\ modal.screenshotPreview # NULL
  /\ modal.includeScreenshot
  /\ ~modal.isEditingScreenshot
  /\ modal' = [modal EXCEPT !.isEditingScreenshot = TRUE]
  /\ UNCHANGED <<objectURLs, capturePending, encodings, inFlight, callbackLog, attempts,
                 uploads, history, outsideFeedbackModal>>

\* The editor's handleSave: canvas.toBlob is called with a callback that calls
\* the onSave of the current render, whose handleSaveEditedScreenshot closes
\* over the screenshotPreview of that render.
EditorSave ==
  /\ editorShown
  /\ Len(encodings) < MaxPending
  /\ history.saves < MaxSaves
  /\ encodings' = Append(encodings,
                         [blob |-> EditedBlob(modal.screenshot, history.saves + 1),
                          screenshotPreview |-> modal.screenshotPreview])
  /\ history' = [history EXCEPT !.saves = @ + 1]
  /\ UNCHANGED <<modal, objectURLs, capturePending, inFlight, callbackLog, attempts,
                 uploads, outsideFeedbackModal>>

\* Mutant of SaveEditedScreenshot: the preview is replaced, the held
\* screenshot is not.
SaveEditedScreenshot_KeepsScreenshot(m, editedBlob, url) ==
  [m EXCEPT !.screenshotPreview = url, !.isEditingScreenshot = FALSE]

\* The state updates of handleSaveEditedScreenshot.
SaveEditedScreenshot(m, editedBlob, url) ==
  [m EXCEPT !.screenshot = editedBlob, !.screenshotPreview = url,
            !.isEditingScreenshot = FALSE]

\* The toBlob callback runs: with null nothing happens; with a blob,
\* handleSaveEditedScreenshot revokes the preview it closed over, creates the
\* new preview URL and stores the edited blob.
EncodingSettles ==
  /\ encodings # <<>>
  /\ encodings' = Tail(encodings)
  /\ \E encoded \in BOOLEAN :
       IF ~encoded
       THEN UNCHANGED <<modal, objectURLs, history>>
       ELSE LET e == Head(encodings)
                afterRevoke == revokeObjectURL(objectURLs, e.screenshotPreview)
            IN  /\ objectURLs' = CreateURL(afterRevoke, e.blob)
                /\ modal' = IF mounted
                            THEN SaveEditedScreenshot(modal, e.blob, NextObjectURL(afterRevoke))
                            ELSE NULL
                /\ history' = IF mounted
                              THEN [history EXCEPT !.lastSaved = e.blob, !.replaced = FALSE]
                              ELSE history
  /\ UNCHANGED <<capturePending, inFlight, callbackLog, attempts, uploads,
                 outsideFeedbackModal>>

\* handleCancelEdit
EditorCancel ==
  /\ editorShown
  /\ modal' = [modal EXCEPT !.isEditingScreenshot = FALSE]
  /\ UNCHANGED <<objectURLs, capturePending, encodings, inFlight, callbackLog, attempts,
                 uploads, history, outsideFeedbackModal>>

\* The Remove button, rendered with the preview.
RemoveScreenshot ==
  /\ formShown
  /\ modal.screenshotPreview # NULL
  /\ modal.includeScreenshot
  /\ ~modal.isSubmitting
  /\ objectURLs' = revokeObjectURL(objectURLs, modal.screenshotPreview)
  /\ modal' = [modal EXCEPT !.screenshot = NULL, !.screenshotPreview = NULL,
                            !.includeScreenshot = FALSE]
  /\ history' = [history EXCEPT !.removed = TRUE, !.replaced = TRUE]
  /\ UNCHANGED <<capturePending, encodings, inFlight, callbackLog, attempts, uploads,
                 outsideFeedbackModal>>

\* Mutant of FieldsFilled: the fields are tested as typed, not trimmed.
FieldsFilled_Untrimmed(m) == m.title # "" /\ m.description # ""

\* !title.trim() || !description.trim(), negated
FieldsFilled(m) == Trim(m.title) # "" /\ Trim(m.description) # ""

\* Mutant of BeginSubmit: isSubmitting is left as it is.
BeginSubmit_NotMarked(m) == m

\* setIsSubmitting(true)
BeginSubmit(m) == [m EXCEPT !.isSubmitting = TRUE]

\* The submit event of the form (the submit button is disabled while
\* isSubmitting).  The browser refuses an empty required field; handleSubmit
\* refuses a blank one; otherwise it calls adapter.createIssue and awaits it.
Submit ==
  /\ formShown
  /\ ~modal.isSubmitting
  /\ attempts < MaxSubmits
  /\ attempts' = attempts + 1
  /\ IF modal.title = "" \/ modal.description = "" \/ ~FieldsFilled(modal)
     THEN UNCHANGED <<modal, inFlight>>
     ELSE /\ modal' = BeginSubmit(modal)
          /\ inFlight' = Append(inFlight, feedbackData("react", ModalProps, modal))
  /\ UNCHANGED <<objectURLs, capturePending, encodings, callbackLog, uploads, history,
                 outsideFeedbackModal>>

\* A call of one of the props, and whether the modal was mounted then.
Called(name) == [name |-> name, whileMounted |-> mounted]

\* adapter.createIssue settles and handleSubmit resumes: onSuccess and
\* onClose for a response, onError otherwise, and setIsSubmitting(false).
SubmissionSettles ==
  /\ inFlight # <<>>
  /\ inFlight' = Tail(inFlight)
  /\ \E r \in CreateIssueResults :
       IF r = "response"
       THEN /\ callbackLog' = callbackLog \o <<Called("onSuccess"), Called("onClose")>>
            /\ Unmount
       ELSE /\ callbackLog' = Append(callbackLog, Called("onError"))
            /\ modal' = IF mounted THEN [modal EXCEPT !.isSubmitting = FALSE] ELSE NULL
            /\ UNCHANGED objectURLs
  /\ UNCHANGED <<capturePending, encodings, attempts, uploads, history,
                 outsideFeedbackModal>>

\* A click on the overlay around the form: onClose, whatever isSubmitting is.
OverlayClick ==
  /\ formShown
  /\ callbackLog' = Append(callbackLog, Called("onClose"))
  /\ Unmount
  /\ UNCHANGED <<capturePending, encodings, inFlight, attempts, uploads, history,
                 outsideFeedbackModal>>

\* The Cancel button of the form, disabled while isSubmitting: onClose.
CancelClick ==
  /\ formShown
  /\ ~modal.isSubmitting
  /\ callbackLog' = Append(callbackLog, Called("onClose"))
  /\ Unmount
  /\ UNCHANGED <<capturePending, encodings, inFlight, attempts, uploads, history,
                 outsideFeedbackModal>>

FeedbackModalNext ==
  \/ \E s \in FieldValues : SetTitle(s)
  \/ \E s \in FieldValues : SetDescription(s)
  \/ FallbackCaptureSettles
  \/ ChooseFile
  \/ SetIncludeScreenshot
  \/ EditClicked
  \/ EditorSave
  \/ EncodingSettles
  \/ EditorCancel
  \/ RemoveScreenshot
  \/ Submit
  \/ SubmissionSettles
  \/ OverlayClick
  \/ CancelClick

FeedbackModalSpec == FeedbackModalInit /\ [][FeedbackModalNext]_<<vars, outsideEditor>>

\* ------------------------------------------------------------- properties
ShapeTools == {"arrow", "rectangle", "circle"}

\* A pointer-up or pointer-leave has just been handled.
Released == lastEvent \in {"up", "leave"}

\* The canvas shows no image content.
Blank(cv) ==
  /\ cv.size = BlankCanvas.size
  /\ \A i \in 1..Len(cv.layers) : cv.layers[i].kind \notin {"page", "patch"}

\* One line segment for every consecutive pair of points of a path, in order.
RECURSIVE Segments(_, _)
Segments(cv, path) ==
  IF Len(path) < 2 THEN cv
  ELSE Paint(Segments(cv, SubSeq(path, 1, Len(path) - 1)),
             "line", path[Len(path) - 1], path[Len(path)])

\* C1: a stroke session exists exactly when a drag is in progress: isDrawing
\* holds if and only if the start point and the snapshot are both present,
\* and right after a pointer-up or pointer-leave the start point, the
\* snapshot and the pen path are all cleared.
C1_StrokeSessionIffDragging ==
  /\ isDrawing <=> (startPoint # NULL /\ imageData # NULL)
  /\ Released => (startPoint = NULL /\ imageData = NULL /\ penPath = <<>>)

\* A pointer-up has ended a drag that drew a figure.
C1_Witness == lastEvent = "up" /\ stroked /\ NumFigures(canvas) = 1

\* C2: when a plain drag (pointer-down, pointer-moves, pointer-up or -leave)
\* with a shape tool ends, the canvas is the snapshot taken at its
\* pointer-down with exactly one shape from its start point to its last
\* point composited.  Stated for the drags that moved at least once.
C2_ShapeDragCompositesOneShape ==
  [][(lastEvent' \in {"up", "leave"} /\ drag.clean /\ tool \in ShapeTools /\ drag.last # NULL)
       => canvas' = DrawShape(drag.snap, tool, drag.start, drag.last)]_vars

\* C2 for every drag, those without a pointer-move included: the last point
\* of such a drag is its start point.
C2_ZeroMoveDragCompositesOneShape ==
  [][(lastEvent' \in {"up", "leave"} /\ drag.clean /\ tool \in ShapeTools)
       => canvas' = DrawShape(drag.snap, tool, drag.start,
                              IF drag.last = NULL THEN drag.start ELSE drag.last)]_vars

\* C2 holds of the drags during which the image did not finish loading.
ShapeDragWithoutLoadCompositesOneShape ==
  [][(lastEvent' \in {"up", "leave"} /\ drag.clean /\ tool \in ShapeTools
        /\ drag.last # NULL /\ ~drag.loaded)
       => canvas' = DrawShape(drag.snap, tool, drag.start, drag.last)]_vars

\* C3: when a plain pen drag ends, the canvas is the snapshot taken at its
\* pointer-down plus one line segment for every consecutive pair of recorded
\* points, in order (N recorded points, N-1 segments).
C3_PenDragDrawsConsecutiveSegments ==
  [][(lastEvent' \in {"up", "leave"} /\ drag.clean /\ tool = "pen")
       => canvas' = Segments(drag.snap, drag.path)]_vars

\* C3 holds of the drags during which the image did not finish loading.
PenDragWithoutLoadDrawsConsecutiveSegments ==
  [][(lastEvent' \in {"up", "leave"} /\ drag.clean /\ tool = "pen" /\ ~drag.loaded)
       => /\ canvas' = Segments(drag.snap, drag.path)
          /\ drag.path = penPath
          /\ NumFigures(canvas') = NumFigures(drag.snap) + Len(drag.path) - 1]_vars

\* C4: while the editor stays mounted its drag state changes only from Idle
\* to Dragging on a pointer-down and from Dragging to Idle on a pointer-up
\* or pointer-leave; a pointer-down handled with a drawing context leads to
\* Dragging; pointer-up and pointer-leave lead to Idle, and both produce the
\* same successor: the stroke session cleared and nothing else changed.
C4_DragStateMachine ==
  [][/\ (editorMounted /\ editorMounted' /\ isDrawing' # isDrawing)
          => IF isDrawing' THEN lastEvent' = "down" ELSE lastEvent' \in {"up", "leave"}
     /\ (lastEvent' = "down" /\ ctx # NULL) => isDrawing'
     /\ lastEvent' \in {"up", "leave"}
          => /\ ~isDrawing' /\ startPoint' = NULL /\ imageData' = NULL /\ penPath' = <<>>
             /\ UNCHANGED <<ctx, tool, color, canvas, imgLoad, modalVars>>]_vars

\* A pointer-leave has ended a drag that drew a figure.
C4_Witness == lastEvent = "leave" /\ ~isDrawing /\ stroked /\ NumFigures(canvas) = 1

\* C5: right after Cancel the caller has been notified through onCancel and
\* not through onSave, and the modal holds the screenshot it held when the
\* editor was opened.
C5_CancelProducesNoArtifact ==
  lastEvent = "cancel" => (notified = "onCancel" /\ screenshot = shotAtOpen)

\* The editor was cancelled after a stroke had been drawn.
C5_Witness == lastEvent = "cancel" /\ stroked /\ ~isEditingScreenshot

\* C6: a Save pressed with the image loaded and no stroke performed hands
\* the caller a blob whose content equals the source image.
C6_SaveWithoutStrokesReturnsSource ==
  (lastEvent = "saved" /\ delivered.loaded /\ ~delivered.stroked)
    => (notified = "onSave" /\ screenshot = delivered.source)

\* A blob was delivered for a Save pressed with the image loaded and no stroke.
C6_Witness == lastEvent = "saved" /\ delivered.loaded /\ ~delivered.stroked

\* C7: when encoding the canvas yields no blob, the editor reports that to
\* the caller through one of its callbacks.
C7_EncodeFailureReported == lastEvent = "encodefailed" => notified # "none"

\* C8: once decoding the source image has failed the canvas shows no image,
\* no handler ends in an uncaught exception, and Cancel is available.
C8_DecodeFailureIsSafe ==
  (editorMounted /\ imgLoad = "failed") => (Blank(canvas) /\ ~threw /\ ENABLED Cancel)

\* C8 apart from the exception handleMouseMove raises with an empty pen path.
DecodeFailureLeavesCanvasBlank ==
  (editorMounted /\ imgLoad = "failed") => (Blank(canvas) /\ ENABLED Cancel)

\* C9: the active tool and the active colour do not change between a
\* pointer-down and the matching pointer-up or pointer-leave.
C9_ToolAndColorFixedWhileDragging ==
  [][(isDrawing /\ isDrawing') => (tool' = tool /\ color' = color)]_vars

\* C10: every DrawingTool and every DrawingColor has a toolbar button in the
\* mounted editor, and a pointer-move between two different points with any
\* of the tools draws a figure.
C10_EveryToolAndColorOffered ==
  editorMounted =>
    /\ \A t \in DrawingTool : t \in toolButtons
    /\ \A c \in DrawingColor : c \in colorButtons
    /\ \A t \in DrawingTool \ {"pen"} : \A from, to \in Points :
          from # to => DrawShape(BlankCanvas, t, from, to) # BlankCanvas

\* C11: a step of the mounted editor that changes the active tool or the
\* active colour changes exactly one of the two and leaves the canvas
\* pixels, the drag state, the start point, the snapshot, the pen path and
\* the modal's state unchanged.
C11_ToolOrColorChangeTouchesNothingElse ==
  [][(editorMounted /\ editorMounted' /\ (tool' # tool \/ color' # color))
       => /\ (tool' = tool \/ color' = color)
          /\ UNCHANGED <<canvas, isDrawing, startPoint, imageData, penPath, ctx, imgLoad,
                         modalVars>>]_vars

\* Tool and colour have both been changed and a drag that has drawn a figure
\* is in progress.
C11_Witness ==
  /\ tool # "arrow" /\ color # "red" /\ lastEvent = "other"
  /\ isDrawing /\ stroked /\ NumFigures(canvas) = 1 /\ imageData # NULL

C13_GitLabRequestCarriesConfiguredLabels ==
  (adapterConfig # NULL /\ request # NULL /\ adapterConfig.adapter = "gitlab")
    => request.labels = OrElse(adapterConfig, "labels", <<>>)

\* The GitHub adapter does send the labels configured on it.
GitHubRequestCarriesConfiguredLabels ==
  (adapterConfig # NULL /\ request # NULL /\ adapterConfig.adapter = "github")
    => request.labels = OrElse(adapterConfig, "labels", <<"feedback", "user-report">>)

\* C16 as stated: createIssue settles by resolving, never by rejecting; it
\* resolves to null whenever a network exception, an encoding failure or a
\* non-OK HTTP status occurred during the call, and to an IssueResponse only
\* when the issue-creation request succeeded.
C16_AnyFailureYieldsNull ==
  adapterPc = "settled" =>
    /\ outcome.settled = "resolved"
    /\ (\/ stages.upload \in {"network", "status"}
        \/ stages.encode = "error"
        \/ stages.issue \in {"network", "status"}) => outcome.value = NULL
    /\ outcome.value # NULL => stages.issue = "ok"

\* C16, amended: createIssue settles by resolving, never by rejecting; it
\* resolves to an IssueResponse exactly when the issue-creation request was
\* answered OK with a readable body, and to null when that request failed
\* (exception, non-OK status, unreadable answer) or, for GitHub, when the
\* screenshot could not be encoded.  A failed GitLab upload does not fail
\* the call: the issue request is sent without a screenshot reference.
C16_IssueRequestDecidesTheResult ==
  /\ outcome # NULL => (adapterPc = "settled" /\ outcome.settled = "resolved")
  /\ adapterPc = "settled" =>
       /\ outcome.value # NULL <=> stages.issue = "ok"
       /\ outcome.value # NULL => outcome.value = IssueResponse(request)
       /\ stages.encode = "error" => (outcome.value = NULL /\ request = NULL)
       /\ stages.upload \notin {"none", "ok"} =>
            (request # NULL /\ request.description.screenshot = NULL)

\* A call with a screenshot has settled with null after the issue request
\* ended in a network exception.
C16_Witness ==
  /\ adapterPc = "settled" /\ feedback.screenshot # NULL
  /\ stages.issue = "network" /\ outcome = Resolved(NULL)

\* C14: the labels given to FeedbackButton are part of the feedback handed
\* to the adapter's createIssue.
C14_LabelsPropReachesCreateIssue ==
  (submitted # NULL /\ host = "react" /\ "labels" \in DOMAIN reporterConfig)
    => ("labels" \in DOMAIN submitted /\ submitted.labels = reporterConfig.labels)

\* Both callbacks are given in the config.
CallbacksGiven == reporterConfig.onSuccess # "absent" /\ reporterConfig.onError # "absent"

\* C15: once a submission has settled, exactly one of the two callbacks has
\* been invoked: onSuccess, and the modal is closed, exactly when createIssue
\* resolved to an IssueResponse; onError, and the modal is still open,
\* exactly when it resolved to null or rejected.
C15_ExactlyOneCallbackPerSubmission ==
  (createIssueResult \in CreateIssueResults /\ CallbacksGiven) =>
    IF createIssueResult = "response"
    THEN calls = <<"onSuccess">> /\ ~formOpen
    ELSE calls = <<"onError">> /\ formOpen

\* C15 holds of the submissions whose onSuccess callback returns normally.
OneCallbackWhenOnSuccessReturns ==
  (createIssueResult \in CreateIssueResults /\ CallbacksGiven
     /\ reporterConfig.onSuccess = "returns") =>
    IF createIssueResult = "response"
    THEN calls = <<"onSuccess">> /\ ~formOpen
    ELSE calls = <<"onError">> /\ formOpen

\* C18: with includeMetadata omitted from the config, the feedback handed to
\* createIssue includes the system metadata, in the React modal and in the
\* vanilla reporter alike.
C18_MetadataIncludedByDefault ==
  (submitted # NULL /\ "includeMetadata" \notin DOMAIN reporterConfig)
    => submitted.metadata = SystemMetadata

\* The React modal does include the metadata by default, and both hosts
\* follow an includeMetadata that is given.
ReactIncludesMetadataByDefault ==
  submitted # NULL =>
    /\ (host = "react" /\ "includeMetadata" \notin DOMAIN reporterConfig)
         => submitted.metadata = SystemMetadata
    /\ "includeMetadata" \in DOMAIN reporterConfig
         => (submitted.metadata # NULL <=> reporterConfig.includeMetadata)

\* C17: after destroy() no button rendered by the reporter is in the
\* document.
C17_DestroyRemovesEveryButton == lastOp = "destroy" => documentButtons = {}

\* destroy() does remove the button rendered last.
DestroyRemovesLastButton ==
  [][lastOp' = "destroy" => (buttonElement' = NULL /\ buttonElement \notin documentButtons')]_pageVars

\* A capture started by the FeedbackButton's click is in flight.
ButtonCaptureInFlight == \E i \in DOMAIN captures : captures[i].caller = "button"

\* C19: isCapturing holds exactly while the capture a click started is in
\* flight, and the button is disabled then; the click itself does not open
\* the modal, nor does anything else while the capture is in flight; when
\* the capture settles, with a blob or with null, isCapturing is false
\* again and the modal is open with the captured blob as initialScreenshot.
C19_ClickCapturesThenOpensModal ==
  /\ [](isCapturing <=> ButtonCaptureInFlight)
  /\ [](isCapturing => ~ENABLED Click)
  /\ [][/\ lastOp' = "click" => (isCapturing' /\ isModalOpen' = isModalOpen)
        /\ (~isCapturing /\ isCapturing') => lastOp' = "click"
        /\ (isCapturing /\ isCapturing') => (isModalOpen' => isModalOpen)
        /\ (isCapturing /\ ~isCapturing')
             => /\ lastOp' = "captureReturned"
                /\ lastReturn'.caller = "button"
                /\ isModalOpen'
                /\ capturedScreenshot' = lastReturn'.promise.value]_pageVars

\* The capture a click started settled with null and the modal is open.
C19_Witness ==
  /\ lastOp = "captureReturned" /\ lastReturn.caller = "button"
  /\ lastReturn.outcome = "null" /\ isModalOpen /\ ~isCapturing /\ capturedScreenshot = NULL

AllHidden == \A e \in MarkedElements : visibility[e] = "hidden"
AllVisible == \A e \in MarkedElements : visibility[e] = ""

\* What C20 says of a captureScreenshot call that has just returned: it did
\* not throw, every marked element is visible, and it returned null unless
\* domtoimage delivered a blob.
ReturnedCleanly ==
  lastOp = "captureReturned" =>
    /\ lastReturn.promise.settled = "resolved"
    /\ AllVisible
    /\ lastReturn.outcome # "blob" => lastReturn.promise.value = NULL
    /\ lastReturn.outcome = "blob" => lastReturn.promise.value = InitialScreenshot

C26_PenPathNonEmptyWhileDragging ==
  (editorMounted /\ isDrawing /\ tool = "pen") => penPath # <<>>

\* The pen path is non-empty in a pen drag during which no other event
\* (a tool change among them) came between the pointer events.
PenPathNonEmptyInPlainDrag ==
  (editorMounted /\ isDrawing /\ tool = "pen" /\ drag.clean) => penPath # <<>>

\* C27: once the image has loaded, the canvas is the source image with
\* figures drawn on it and nothing else: no snapshot taken before the image
\* was drawn has been written back over it.
C27_LoadedCanvasShowsTheImage ==
  (editorMounted /\ imgLoad = "loaded") =>
    /\ canvas.size = InitialScreenshot.size
    /\ canvas.layers # <<>>
    /\ canvas.layers[1] = InitialScreenshot.layers[1]
    /\ \A i \in DOMAIN canvas.layers : canvas.layers[i].kind # "patch"

\* C27 holds as long as no pointer-down was handled before the image loaded.
LoadedCanvasShowsTheImageUnlessDragBegan ==
  (editorMounted /\ imgLoad = "loaded" /\ (imageData = NULL \/ imageData.layers # <<>>)
     /\ ~isDrawing) =>
    /\ canvas.size = InitialScreenshot.size
    /\ canvas.layers # <<>>
    /\ canvas.layers[1] = InitialScreenshot.layers[1]

\* C28: a pointer-down handled while a drag is in progress replaces neither
\* the snapshot nor the start point.
C28_SecondPointerDownKeepsSnapshot ==
  [][(editorMounted /\ isDrawing /\ lastEvent' = "down")
       => UNCHANGED <<imageData, startPoint>>]_vars

\* The snapshot taken by a pointer-down in the Idle state is the canvas as
\* it is then.
IdlePointerDownSnapshotsCanvas ==
  [][(editorMounted /\ ~isDrawing /\ ctx # NULL /\ lastEvent' = "down")
       => (imageData' = canvas /\ canvas' = canvas)]_vars

\* adapter.createIssue is called in this step; the FeedbackData it is given.
CreateIssueCalled == Len(inFlight') > Len(inFlight)
FeedbackPassed == inFlight'[Len(inFlight')]

\* C21: the feedback passed to createIssue contains a screenshot exactly when
\* the 'Include screenshot' checkbox is checked and a screenshot is held, and
\* after Remove no screenshot is sent until a new file is chosen.
C21_ScreenshotSentIffIncludedAndNotRemoved ==
  [][CreateIssueCalled =>
       /\ (FeedbackPassed.screenshot # NULL)
            <=> (modal.includeScreenshot /\ modal.screenshot # NULL)
       /\ history.removed => FeedbackPassed.screenshot = NULL]_feedbackModalVars

\* The screenshot passed to createIssue is the one held, and it is passed
\* exactly when the checkbox is checked and one is held.
ScreenshotSentIffIncludedAndHeld ==
  [][CreateIssueCalled =>
       /\ (FeedbackPassed.screenshot # NULL)
            <=> (modal.includeScreenshot /\ modal.screenshot # NULL)
       /\ FeedbackPassed.screenshot # NULL
            => FeedbackPassed.screenshot = modal.screenshot]_feedbackModalVars

\* C22: a submit with the title or the description empty after trimming does
\* not call createIssue, invokes neither onSuccess nor onError, and leaves
\* isSubmitting and the modal's open state as they are.
C22_BlankSubmitDoesNothing ==
  [][(attempts' # attempts
        /\ (modal.title \in {"", " "} \/ modal.description \in {"", " "}))
       => (inFlight' = inFlight /\ callbackLog' = callbackLog /\ modal' = modal
           /\ ~modal'.isSubmitting)]_feedbackModalVars

\* A submit was refused for a title of white space only.
C22_Witness ==
  /\ mounted
  /\ attempts > 0
  /\ modal.title = " "
  /\ modal.description = "text"
  /\ inFlight = <<>>
  /\ callbackLog = <<>>

\* The editor's blob is delivered to the mounted modal in this step.
SavedBlobDelivered == Len(encodings') < Len(encodings) /\ history'.lastSaved # history.lastSaved

\* C23, as stated: when the editor delivers a blob the modal holds it and
\* leaves editing mode, and every later submit sends the blob saved last.
C23_LaterSubmitsSendSavedBlob ==
  [][/\ SavedBlobDelivered
          => (modal'.screenshot = Head(encodings).blob /\ ~modal'.isEditingScreenshot)
     /\ (CreateIssueCalled /\ history.lastSaved # NULL)
          => FeedbackPassed.screenshot = history.lastSaved]_feedbackModalVars

\* C23: when the editor delivers a blob the modal holds it and leaves editing
\* mode; a later submit never sends the screenshot that was edited, and it
\* sends the blob saved last if the checkbox is checked and the screenshot
\* has not been removed or replaced since.
C23_SavedBlobSentWhileHeldAndIncluded ==
  [][/\ SavedBlobDelivered
          => (modal'.screenshot = Head(encodings).blob /\ ~modal'.isEditingScreenshot)
     /\ (CreateIssueCalled /\ history.lastSaved # NULL)
          => /\ FeedbackPassed.screenshot # history.lastSaved.edited
             /\ (modal.includeScreenshot /\ ~history.replaced)
                  => FeedbackPassed.screenshot = history.lastSaved
             /\ ~modal.includeScreenshot
                  => FeedbackPassed.screenshot = NULL]_feedbackModalVars

\* A submission in flight carries the second blob the editor saved.
C23_Witness ==
  /\ inFlight # <<>>
  /\ history.lastSaved # NULL
  /\ history.lastSaved.n = 2
  /\ inFlight[1].screenshot = history.lastSaved

\* C24: at most one createIssue call of the modal is in flight; isSubmitting
\* is true exactly while one is, so no second submission starts meanwhile and
\* isSubmitting is false again once the call has settled, however it did.
C24_OneSubmissionInFlight ==
  /\ Len(inFlight) <= 1
  /\ mounted => (modal.isSubmitting <=> inFlight # <<>>)
  /\ (mounted /\ modal.isSubmitting) => ~ENABLED Submit

\* A second submission is in flight after the first one failed.
C24_Witness ==
  /\ mounted
  /\ modal.isSubmitting
  /\ Len(inFlight) = 1
  /\ attempts = 2
  /\ callbackLog = <<[name |-> "onError", whileMounted |-> TRUE]>>

\* C25: onClose is invoked at most once, and onSuccess and onError are never
\* invoked once the modal has been closed.
C25_ClosedOnceAndNoCallbackAfterClose ==
  /\ Cardinality({i \in DOMAIN callbackLog : callbackLog[i].name = "onClose"}) <= 1
  /\ \A i \in DOMAIN callbackLog :
       callbackLog[i].name \in {"onSuccess", "onError"} => callbackLog[i].whileMounted

\* The Cancel button does not close the modal while a submission is in
\* flight.
CancelButtonDisabledWhileSubmitting ==
  (mounted /\ modal.isSubmitting) => ~ENABLED CancelClick

\* C29: once the modal is unmounted, every object URL it created has been
\* revoked.
C29_ObjectURLsRevokedAtUnmount ==
  ~mounted => \A i \in DOMAIN objectURLs : objectURLs[i].revoked

\* The Remove button revokes the preview URL it discards.
RemoveRevokesThePreview ==
  [][(mounted /\ history'.removed /\ ~history.removed)
       => objectURLs'[modal.screenshotPreview.url].revoked]_feedbackModalVars

\* C30: at most one feedback modal of the vanilla reporter is in the document
\* at any time, whatever the sequence of button clicks and openModal() calls.
C30_AtMostOneVanillaModal == vanillaModals <= 1


====
